---- MODULE Spec2Model ----
(***************************************************************************)
(* Model of ScraperAthensClarke (scraper_athens_clarke.py): scrape_all =   *)
(* scrape_main; scrape_sub; dump, with get_page as the page fetcher.       *)
(*                                                                         *)
(* Text that the program edits character by character (names, case         *)
(* numbers, table cells) is a sequence of one-character strings.  A null   *)
(* cell (pandas NaN/None) is the value NaN.  URLs are sequences of path    *)
(* segments.  Text that is only assigned and compared (notes) is a string. *)
(*                                                                         *)
(* The model ranges over roster pages that hold exactly one table with    *)
(* the expected column names (lines 45-49) and whose columns SEX, RACE,    *)
(* BOOKING DATE and YEAR OF BIRTH pass their assertions (lines 106-127,    *)
(* 141-150); those columns and the fields set from them are left out.      *)
(* The fixed cells of a subpage's tables are kept as the outcome of the    *)
(* check made on them (shape_ok, labels_ok, columns_ok).                   *)
(***************************************************************************)
EXTENDS Integers, Sequences, FiniteSets, TLC

VARIABLES
    pc,          \* position of the run inside scrape_all
    retries,     \* self.retries
    main_page,   \* what the server holds at self.url: table rows and <a href> links
    web,         \* the site: names the subpages a subpage URL may be answered with
    html_main,   \* self.html_main
    df,          \* self.df, a sequence of rows
    i,           \* scrape_sub's loop counter
    html_sub,    \* html_sub of the current iteration
    errormsg,    \* error message returned by the latest get_page call
    sent,        \* the GETs of the latest get_page call, each with what it met
    log,         \* observable events of scrape_sub: fetches, warnings, merges, sleeps
    raised,      \* the exception that ended the run, None while there is none
    dumps        \* number of CSV files written by dump()

vars == <<pc, retries, main_page, web, html_main, df, i, html_sub, errormsg, sent, log,
          raised, dumps>>

----------------------------------------------------------------------------
(* Bounds of the model *)

MaxRetries == 2     \* self.retries ranges over 0..MaxRetries
MaxRows == 2        \* roster pages of SpecMain have 1..MaxRows rows
MaxLinks == 2       \* roster pages of Spec have 1..MaxLinks rows
MaxCharges == 2     \* detail pages of SpecDetail have 1..MaxCharges charge rows

----------------------------------------------------------------------------
(* Values *)

NaN == <<"NaN">>
None == [type |-> "None"]
codes_ok == 200

isnull(x) == x = NaN
fillna(x, v) == IF x = NaN THEN v ELSE x

Range(s) == {s[k] : k \in 1..Len(s)}

RECURSIVE replace_chars(_, _, _)
replace_chars(s, c, rep) ==
    IF s = <<>> THEN <<>>
    ELSE (IF Head(s) = c THEN rep ELSE <<Head(s)>>) \o replace_chars(Tail(s), c, rep)

\* Series.str.replace(c, rep) on one cell, c a single character; NaN stays NaN
str_replace(s, c, rep) == IF s = NaN THEN NaN ELSE replace_chars(s, c, rep)

\* 'literal' + cell and cell + cell: NaN if either side is NaN
str_add(a, b) == IF a = NaN \/ b = NaN THEN NaN ELSE a \o b

\* position of the first occurrence of sep in s, 0 if there is none
str_find(s, sep) ==
    LET P == {k \in 1..(Len(s) - Len(sep) + 1) : SubSeq(s, k, k + Len(sep) - 1) = sep}
    IN IF P = {} THEN 0 ELSE CHOOSE k \in P : \A j \in P : k <= j

\* Series.str.split(sep, n=1) on one cell: the list of parts; a null cell has none
str_split(s, sep) ==
    IF s = NaN THEN <<>>
    ELSE LET k == str_find(s, sep)
         IN IF k = 0 THEN <<s>>
            ELSE <<SubSeq(s, 1, k - 1), SubSeq(s, k + Len(sep), Len(s))>>

Max(S) == CHOOSE m \in S : \A x \in S : x <= m

\* expand=True: one column per part of the longest list, shorter rows padded with nulls
expand(parts) ==
    LET w == Max({Len(parts[r]) : r \in 1..Len(parts)})
    IN [r \in 1..Len(parts) |->
          [c \in 1..w |-> IF c <= Len(parts[r]) THEN parts[r][c] ELSE NaN]]

\* DataFrame.shape[1] of an expanded split
shape1(frame) == Len(frame[1])

RECURSIVE str_cat(_, _)
\* Series.str.cat(sep=sep) of a column without nulls
str_cat(col, sep) ==
    IF col = <<>> THEN <<>>
    ELSE IF Len(col) = 1 THEN col[1]
    ELSE col[1] \o sep \o str_cat(Tail(col), sep)

----------------------------------------------------------------------------
(* get_page *)

headers == "User-Agent (Contact lahoffm@gmail.com)"

\* str(e) of the exception raised by attempt k
str_e(k, response) ==
    IF response.raised THEN [type |-> "Exception", attempt |-> k]
    ELSE [type |-> "HTTPError", attempt |-> k, status_code |-> response.status_code]

RECURSIVE get_page_loop_first_error(_, _, _, _, _)
\* get_page as it would be if the error message were set by the first failure only
get_page_loop_first_error(url, net, retries_left, msg, reqs) ==
    IF retries_left >= 0
    THEN LET k == Len(reqs) + 1
             reqs1 == Append(reqs, [url |-> url, headers |-> headers, met |-> net[k]])
         IN IF (~net[k].raised) /\ net[k].status_code = codes_ok
            THEN [html |-> net[k].text, errormsg |-> None, sent |-> reqs1]
            ELSE get_page_loop_first_error(url, net, retries_left - 1,
                                           IF msg = None THEN str_e(k, net[k]) ELSE msg, reqs1)
    ELSE [html |-> None, errormsg |-> msg, sent |-> reqs]

RECURSIVE get_page_loop(_, _, _, _, _)
\* net[k] is what the k-th GET meets: an exception, or a response with a status
get_page_loop(url, net, retries_left, msg, reqs) ==
    IF retries_left >= 0
    THEN LET k == Len(reqs) + 1
             reqs1 == Append(reqs, [url |-> url, headers |-> headers, met |-> net[k]])
         IN IF (~net[k].raised) /\ net[k].status_code = codes_ok
            THEN [html |-> net[k].text, errormsg |-> None, sent |-> reqs1]
            ELSE get_page_loop(url, net, retries_left - 1, str_e(k, net[k]), reqs1)
    ELSE [html |-> None, errormsg |-> msg, sent |-> reqs]

get_page(url, net) == get_page_loop(url, net, retries, None, <<>>)

\* what one GET of a URL holding `content` can meet
Responses(content) ==
    { [raised |-> FALSE, status_code |-> 200, text |-> content],
      [raised |-> FALSE, status_code |-> 404, text |-> None],
      [raised |-> TRUE,  status_code |-> 0,   text |-> None] }

\* the outcomes of retries+1 successive GETs
Nets(content) == [1..(retries + 1) -> Responses(content)]

----------------------------------------------------------------------------
(* scrape_main *)

\* self.url, as path segments
url == <<"http://host", "roster.asp">>

Sentinel == "Failed to load inmate detail page. Leaving some fields blank"

CasePrefix == <<"C","a","s","e"," ","#"," ">>
PolicePrefix == <<";","P","o","l","i","c","e"," ","c","a","s","e"," ","#"," ">>

\* the columns of df_main as sequences of cells
column(rows, name) == [r \in 1..Len(rows) |-> rows[r][name]]

\* Series.unique().size
unique_size(col) == Cardinality(Range(col))

\* lines 135-139 as they would be without the replacement of ';' in the case number
processing_numbers_unescaped(case_number, police_case) ==
    LET pn == fillna(str_add(CasePrefix, case_number), <<>>)
        tmp == fillna(str_add(PolicePrefix, str_replace(police_case, ";", <<":">>)), <<";">>)
    IN str_add(pn, tmp)

\* lines 135-139, for one row
processing_numbers(case_number, police_case) ==
    LET pn == fillna(str_add(CasePrefix, str_replace(case_number, ";", <<":">>)), <<>>)
        tmp == fillna(str_add(PolicePrefix, str_replace(police_case, ";", <<":">>)), <<";">>)
    IN str_add(pn, tmp)

\* line 96: NAME split at the first ', '
name_split(rows) == expand([r \in 1..Len(rows) |-> str_split(rows[r].NAME, <<",", " ">>)])

\* lines 99-100: the part after ', ' split at the first ' '
first_split(inmate_name) ==
    expand([r \in 1..Len(inmate_name) |-> str_split(inmate_name[r][2], <<" ">>)])

\* line 97
name_assert(inmate_name) == shape1(inmate_name) = 2

\* line 101
first_assert(inmate_name) == shape1(inmate_name) = 2

\* lines 52-150: the data frame built from the rows of the main table, or the
\* assertion that fails first
scrape_main(html) ==
    LET rows == html.rows
        mid == column(rows, "MID")
        name == column(rows, "NAME")
    IN IF \E r \in 1..Len(rows) : isnull(mid[r])
       THEN [ok |-> FALSE, error |-> "AssertionError", df |-> <<>>]
       ELSE IF unique_size(mid) # Len(rows)
       THEN [ok |-> FALSE, error |-> "AssertionError: Non-unique inmate IDs", df |-> <<>>]
       ELSE IF \E r \in 1..Len(rows) : isnull(name[r])
       THEN [ok |-> FALSE, error |-> "AssertionError", df |-> <<>>]
       ELSE LET inmate_name == name_split(rows)
            IN IF ~name_assert(inmate_name)
               THEN [ok |-> FALSE, error |-> "AssertionError: Invalid name format", df |-> <<>>]
               ELSE LET first_middle == first_split(inmate_name)
                    IN IF ~first_assert(first_middle)
                       THEN [ok |-> FALSE, error |-> "AssertionError: Invalid name format",
                             df |-> <<>>]
                       ELSE [ok |-> TRUE, error |-> "",
                             df |-> [r \in 1..Len(rows) |->
                               [url |-> url,
                                inmate_id |-> mid[r],
                                inmate_lastname |-> inmate_name[r][1],
                                inmate_firstname |-> fillna(first_middle[r][1], <<>>),
                                inmate_middlename |-> fillna(first_middle[r][2], <<>>),
                                inmate_address |-> <<>>,
                                processing_numbers |->
                                    processing_numbers(rows[r].CASE_NUMBER, rows[r].POLICE_CASE),
                                agency |-> <<>>,
                                charges |-> <<>>,
                                severity |-> <<>>,
                                bond_amount |-> <<>>,
                                current_status |-> <<>>,
                                notes |-> ""]]]

\* scrape_all's call of scrape_main (lines 23, 27-150)
ScrapeMain ==
    /\ pc = "start"
    /\ \E net \in Nets(main_page) :
         LET page == get_page(url, net)
         IN /\ errormsg' = page.errormsg
            /\ sent' = page.sent
            /\ html_main' = page.html
            /\ IF page.errormsg # None
               THEN /\ raised' = [type |-> "RequestException"]
                    /\ pc' = "aborted"
                    /\ df' = df
               ELSE LET m == scrape_main(page.html)
                    IN IF m.ok
                       THEN /\ df' = m.df
                            /\ pc' = "scrape_sub"
                            /\ raised' = raised
                       ELSE /\ df' = df
                            /\ pc' = "aborted"
                            /\ raised' = [type |-> m.error]
    /\ UNCHANGED <<retries, main_page, web, i, html_sub, log, dumps>>

----------------------------------------------------------------------------
(* scrape_sub *)

MidPrefix == <<"M","I","D","#",":"," ">>
BondLastUpdated == <<" ","B","o","n","d"," ","l","a","s","t"," ","u","p","d","a","t","e","d">>
misdemeanor == <<"m","i","s","d","e","m","e","a","n","o","r">>
felony == <<"f","e","l","o","n","y">>

startswith(s, prefix) == Len(s) >= Len(prefix) /\ SubSeq(s, 1, Len(prefix)) = prefix

\* line 170: self.url up to and including its last '/', then the link's target
subpage_url(target) == SubSeq(url, 1, Len(url) - 1) \o <<target>>

\* line 199 as it would be if the page were merged into the first row of the frame
\* whenever its id is found
find_rows_first(frame, inmate_id) ==
    IF \E r \in 1..Len(frame) : frame[r].inmate_id = inmate_id THEN {1} ELSE {}

\* line 199: the index of the rows whose inmate_id equals the page's
find_rows(frame, inmate_id) == {r \in 1..Len(frame) : frame[r].inmate_id = inmate_id}

\* self.df.loc[ix, fields] = values
assign(frame, ix, fields) ==
    [r \in 1..Len(frame) |-> IF r \in ix THEN fields @@ frame[r] ELSE frame[r]]

\* lines 210-215: one agency if all charges name the same one, else all of them joined
agency_value(col) == IF unique_size(col) = 1 THEN col[1] ELSE str_cat(col, <<";">>)

\* lines 221-223: if some grade is 'L', every 'L' of the column is replaced by ''
grade_replace_L(col) ==
    IF \E c \in 1..Len(col) : col[c] = <<"L">>
    THEN [c \in 1..Len(col) |-> str_replace(col[c], "L", <<>>)]
    ELSE col

\* line 225
grade_assert(col) == \A c \in 1..Len(col) : col[c] \in {<<"M">>, <<"F">>, <<>>}

\* lines 226-228
severity_value(col) ==
    str_cat([c \in 1..Len(col) |->
               str_replace(str_replace(col[c], "M", misdemeanor), "F", felony)], <<";">>)

\* lines 232 and 248 as they would be without the replacement of ';'
joined_value_unescaped(col) == str_cat(col, <<";">>)

\* lines 232 and 248: ';' inside a cell becomes ':', then the cells are joined by ';'
joined_value(col) == str_cat([c \in 1..Len(col) |-> str_replace(col[c], ";", <<":">>)], <<";">>)

\* lines 237-239 for one cell
bond_amount_cell(amount) ==
    LET a1 == IF amount = <<"$","0",".","0","0">> THEN <<>> ELSE amount
        a2 == IF a1 = <<"$">> THEN <<>> ELSE a1
    IN str_replace(a2, ",", <<>>)

\* lines 237-245
bond_amount_value(rows) ==
    str_cat([c \in 1..Len(rows) |->
               bond_amount_cell(rows[c].bond_amount) \o <<" ">>
               \o str_replace(rows[c].bond_remarks, ";", <<":">>) \o <<" ">>
               \o BondLastUpdated \o <<" ">>
               \o str_replace(rows[c].bond_updated, ";", <<":">>)], <<";">>)

\* line 220: df_sub2.fillna('')
fillna_rows(rows) == [c \in 1..Len(rows) |-> [f \in DOMAIN rows[c] |-> fillna(rows[c][f], <<>>)]]

\* lines 186-190
labels_assert(html) == html.labels_ok /\ startswith(html.mid_cell, MidPrefix)

\* lines 176-251: one subpage parsed and merged into frame.  status is "skip" (warning,
\* continue), "raise" (an exception leaves scrape_sub; df is self.df at that moment) or
\* "merged"; warns counts the calls of warn()
parse_detail(html, frame, page_url) ==
    IF html.name_tables = 0
    THEN [status |-> "skip", error |-> "ValueError", df |-> frame, warns |-> 1]
    ELSE IF html.name_tables # 1 \/ ~html.shape_ok \/ ~labels_assert(html)
    THEN [status |-> "raise", error |-> "AssertionError", df |-> frame, warns |-> 0]
    ELSE IF html.agency_tables = 0
    THEN [status |-> "raise", error |-> "ValueError", df |-> frame, warns |-> 0]
    ELSE IF html.agency_tables # 1 \/ ~html.columns_ok \/ html.charges = <<>>
    THEN [status |-> "raise", error |-> "AssertionError", df |-> frame, warns |-> 0]
    ELSE
    LET df_sub2 == html.charges
        inmate_id == SubSeq(html.mid_cell, Len(MidPrefix) + 1, Len(html.mid_cell))
        ix == find_rows(frame, inmate_id)
        agencies == column(df_sub2, "agency")
        df1 == assign(frame, ix, [url |-> page_url,
                                  inmate_address |-> fillna(html.address, <<>>)])
        w1 == IF unique_size(agencies) = 1 THEN 0 ELSE 1
        df2 == assign(df1, ix, [agency |-> agency_value(agencies)])
        filled == fillna_rows(df_sub2)
        grades0 == column(filled, "grade")
        grades == grade_replace_L(grades0)
        w2 == IF \E c \in 1..Len(grades0) : grades0[c] = <<"L">> THEN 1 ELSE 0
        df3 == assign(df2, ix,
                 [severity |-> severity_value(grades),
                  charges |-> joined_value(column(filled, "description")),
                  bond_amount |-> bond_amount_value(filled),
                  current_status |-> joined_value(column(filled, "disposition")),
                  notes |-> ""])
    IN IF ix = {}
       THEN [status |-> "raise", error |-> "AssertionError: not found in main page",
             df |-> frame, warns |-> 0]
       ELSE IF \E c \in 1..Len(agencies) : isnull(agencies[c])
       THEN [status |-> "raise", error |-> "AssertionError: Invalid arresting agency format",
             df |-> df1, warns |-> 0]
       ELSE IF ~grade_assert(grades)
       THEN [status |-> "raise", error |-> "AssertionError: Invalid misdemeanor/felony format.",
             df |-> df2, warns |-> w1 + w2]
       ELSE [status |-> "merged", error |-> "", df |-> df3, warns |-> w1 + w2]

----------------------------------------------------------------------------
(* The pages the server may hold *)

Digits == <<"1", "2", "3", "4", "5", "6">>
Targets == <<"details?id=1", "details?id=2", "details?id=3", "details?id=4",
             "details?id=5", "details?id=6">>

\* the inmate id of the k-th row of a roster, and an id no roster has
IdOf(k) == <<Digits[k]>>
NoId == <<"0">>

SeqsUpTo(S, n) == UNION {[1..m -> S] : m \in 1..n}

Names ==
    { <<"A", ",", " ", "B">>,                        \* 'A, B'
      <<"A", ",", " ", "B", " ", "C">>,              \* 'A, B C'
      <<"A", ",", " ", "B", " ", "C", " ", "D">>,    \* 'A, B C D'
      <<"A", ",", "B">>,                             \* 'A,B'
      <<"A", " ", "B">>,                             \* 'A B'
      <<"A", ",", " ">> }                            \* 'A, '

CaseNumbers == {NaN, <<"7">>, <<"7", ";", "4">>}
PoliceCases == {NaN, <<"8">>, <<";", "8">>}

RowBodies ==
    {[NAME |-> n, CASE_NUMBER |-> NaN, POLICE_CASE |-> NaN] : n \in Names}
    \cup {[NAME |-> <<"A", ",", " ", "B", " ", "C">>, CASE_NUMBER |-> c, POLICE_CASE |-> p] :
            c \in CaseNumbers, p \in PoliceCases}

\* a roster page: row k has id k and link k
MainPage(bodies) ==
    [rows |-> [k \in 1..Len(bodies) |-> [MID |-> IdOf(k)] @@ bodies[k]],
     links |-> [k \in 1..Len(bodies) |-> Targets[k]]]

GoodBody == [NAME |-> <<"A", ",", " ", "B", " ", "C">>, CASE_NUMBER |-> <<"7">>, POLICE_CASE |-> NaN]

GoodMainPage(n) == MainPage([k \in 1..n |-> GoodBody])

\* rosters with a null id, a repeated id, a null name, one link too many
BadMainPages ==
    { [GoodMainPage(2) EXCEPT !.rows[2].MID = NaN],
      [GoodMainPage(2) EXCEPT !.rows[2].MID = IdOf(1)],
      [GoodMainPage(2) EXCEPT !.rows[1].NAME = NaN],
      [GoodMainPage(1) EXCEPT !.links = <<Targets[1], Targets[2]>>] }

Charge(ag, g, d, a, rm, up, ds) ==
    [agency |-> ag, grade |-> g, description |-> d, bond_amount |-> a,
     bond_remarks |-> rm, bond_updated |-> up, disposition |-> ds]

BaseCharge == Charge(<<"P">>, <<"M">>, <<"d">>, <<"$", "1">>, NaN, <<"u">>, NaN)

DetailPage(id, charges) ==
    [name_tables |-> 1, shape_ok |-> TRUE, labels_ok |-> TRUE, mid_cell |-> MidPrefix \o id,
     address |-> <<"x">>, agency_tables |-> 1, columns_ok |-> TRUE, charges |-> charges]

\* subpages on which one thing is not as scrape_sub expects it
BrokenPages(id) ==
    LET good == DetailPage(id, <<BaseCharge>>)
    IN { [good EXCEPT !.name_tables = 0],
         [good EXCEPT !.name_tables = 2],
         [good EXCEPT !.shape_ok = FALSE],
         [good EXCEPT !.labels_ok = FALSE],
         [good EXCEPT !.mid_cell = <<"I", "D", ":", " ">> \o id],
         [good EXCEPT !.agency_tables = 0],
         [good EXCEPT !.agency_tables = 2],
         [good EXCEPT !.columns_ok = FALSE],
         [good EXCEPT !.charges = <<>>],
         [good EXCEPT !.charges = <<[BaseCharge EXCEPT !.agency = NaN]>>],
         [good EXCEPT !.charges = <<[BaseCharge EXCEPT !.grade = <<"X">>]>>] }

\* the subpages of Spec, for a roster of n rows
PagesSmall(n) ==
    {DetailPage(IdOf(k), <<BaseCharge>>) : k \in 1..n}
    \cup {DetailPage(NoId, <<BaseCharge>>)}
    \cup {[DetailPage(IdOf(1), <<BaseCharge, [BaseCharge EXCEPT !.agency = <<"Q">>,
                                                              !.grade = <<"L">>]>>)
             EXCEPT !.address = NaN]}
    \cup BrokenPages(IdOf(1))

Grades == {<<"M">>, <<"F">>, <<>>, NaN, <<"L">>, <<"X">>, <<"L", "M">>, <<"F", "L">>}

GradeCharges == {[BaseCharge EXCEPT !.grade = g] : g \in Grades}

CellCharges ==
    { BaseCharge,
      Charge(<<"Q">>, <<"F">>, <<"d", ";", "e">>, <<"$", "0", ".", "0", "0">>,
             <<"r", ";", "s">>, <<"u", ";", "v">>, <<"s", ";", "t">>),
      Charge(<<"P">>, NaN, NaN, <<"$">>, <<"r">>, NaN, <<"s">>),
      Charge(<<"P", ";", "Q">>, <<"L">>, <<"d">>, <<"$", "1", ",", "0">>, NaN, NaN, NaN),
      Charge(<<"P">>, <<"M">>, <<";">>, <<"$", ";", "1">>, NaN, NaN, NaN),
      Charge(NaN, <<"M">>, <<"d">>, NaN, NaN, NaN, NaN) }

\* the subpages of SpecDetail
PagesBig ==
    {DetailPage(id, charges) :
        id \in {IdOf(1), NoId}, charges \in SeqsUpTo(GradeCharges \cup CellCharges, MaxCharges)}
    \cup BrokenPages(IdOf(1))

\* the subpages the site may answer a subpage URL with
Subpages ==
    IF web = "small" THEN PagesSmall(Len(main_page.rows))
    ELSE IF web = "big" THEN PagesBig
    ELSE {DetailPage(IdOf(k), <<BaseCharge>>) : k \in 1..Len(main_page.rows)}

----------------------------------------------------------------------------
(* The actions of scrape_sub and dump *)

\* the <a href> tags of self.html_main
hrefs == html_main.links

Warnings(n, k) == [w \in 1..n |-> [ev |-> "warn", i |-> k]]

\* lines 158-162
SubBegin ==
    /\ pc = "scrape_sub"
    /\ IF Len(hrefs) = Len(df)
       THEN /\ df' = [r \in 1..Len(df) |-> [notes |-> Sentinel] @@ df[r]]
            /\ i' = 0
            /\ pc' = "loop"
            /\ raised' = raised
       ELSE /\ raised' = [type |-> "AssertionError: Number of hrefs != number of table entries"]
            /\ pc' = "aborted"
            /\ UNCHANGED <<df, i>>
    /\ UNCHANGED <<retries, main_page, web, html_main, html_sub, errormsg, sent, log, dumps>>

\* lines 163-174: the next link's subpage is fetched
SubFetch ==
    /\ pc = "loop"
    /\ i < Len(hrefs)
    /\ i' = i + 1
    /\ \E content \in Subpages : \E net \in Nets(content) :
         LET page == get_page(subpage_url(hrefs[i + 1]), net)
         IN /\ errormsg' = page.errormsg
            /\ sent' = page.sent
            /\ html_sub' = page.html
            /\ IF page.errormsg # None
               THEN /\ log' = log \o <<[ev |-> "fetch", i |-> i + 1, ok |-> FALSE],
                                       [ev |-> "warn", i |-> i + 1]>>
                    /\ pc' = "loop"
               ELSE /\ log' = Append(log, [ev |-> "fetch", i |-> i + 1, ok |-> TRUE])
                    /\ pc' = "parse"
    /\ UNCHANGED <<retries, main_page, web, html_main, df, raised, dumps>>

\* lines 176-253: the fetched subpage is parsed and merged, then the delay
SubParse ==
    /\ pc = "parse"
    /\ LET p == parse_detail(html_sub, df, subpage_url(hrefs[i]))
       IN /\ df' = p.df
          /\ IF p.status = "skip"
             THEN /\ log' = log \o Warnings(p.warns, i)
                  /\ pc' = "loop"
                  /\ raised' = raised
             ELSE IF p.status = "raise"
             THEN /\ log' = log \o Warnings(p.warns, i)
                  /\ pc' = "aborted"
                  /\ raised' = [type |-> p.error]
             ELSE /\ log' = log \o Warnings(p.warns, i)
                             \o <<[ev |-> "merge", i |-> i, mid_cell |-> html_sub.mid_cell],
                                  [ev |-> "sleep", i |-> i]>>
                  /\ pc' = "loop"
                  /\ raised' = raised
    /\ UNCHANGED <<retries, main_page, web, html_main, i, html_sub, errormsg, sent, dumps>>

\* lines 25, 255-259: scrape_sub's loop is over and scrape_all calls dump
Dump ==
    /\ pc = "loop"
    /\ i = Len(hrefs)
    /\ dumps' = dumps + 1
    /\ pc' = "done"
    /\ UNCHANGED <<retries, main_page, web, html_main, df, i, html_sub, errormsg, sent, log,
                   raised>>

Next == ScrapeMain \/ SubBegin \/ SubFetch \/ SubParse \/ Dump

----------------------------------------------------------------------------
(* Specifications *)

\* the state after __init__, before scrape_all
Constructed ==
    /\ pc = "start"
    /\ html_main = None
    /\ df = <<>>
    /\ i = 0
    /\ html_sub = None
    /\ errormsg = None
    /\ sent = <<>>
    /\ log = <<>>
    /\ raised = None
    /\ dumps = 0

\* whole runs over small rosters and a subpage of every kind
Init ==
    /\ retries \in 0..MaxRetries
    /\ main_page \in {GoodMainPage(n) : n \in 1..MaxLinks} \cup BadMainPages
    /\ web = "small"
    /\ Constructed

Spec == Init /\ [][Next]_vars

\* runs over every roster of 1..MaxRows rows, the subpages all well-formed
InitMain ==
    /\ retries = 0
    /\ main_page \in {MainPage(b) : b \in SeqsUpTo(RowBodies, MaxRows)}
    /\ web = "good"
    /\ Constructed

SpecMain == InitMain /\ [][Next]_vars

\* runs over a one-row roster and every subpage of 1..MaxCharges charges
InitDetail ==
    /\ retries = 0
    /\ main_page = GoodMainPage(1)
    /\ web = "big"
    /\ Constructed

SpecDetail == InitDetail /\ [][Next]_vars

----------------------------------------------------------------------------
(* Vocabulary of the properties *)

Count(s, c) == Cardinality({k \in 1..Len(s) : s[k] = c})

\* a cell as it is to appear in a ';'-joined field: empty if missing, ';' turned to ':'
Escaped(x) == IF x = NaN THEN <<>> ELSE [k \in 1..Len(x) |-> IF x[k] = ";" THEN ":" ELSE x[k]]

Filled(x) == IF x = NaN THEN <<>> ELSE x

RECURSIVE JoinFirst(_, _)
JoinFirst(parts, n) ==
    IF n = 0 THEN <<>>
    ELSE IF n = 1 THEN parts[1]
    ELSE JoinFirst(parts, n - 1) \o <<";">> \o parts[n]

\* the parts joined by ';'
Join(parts) == JoinFirst(parts, Len(parts))

\* the roster the run read
Roster == html_main.rows

MainFetched == pc # "start" /\ html_main # None

\* position of the first ', ' of a name, 0 if it has none
SeparatorAt(s) ==
    LET P == {k \in 1..(Len(s) - 1) : s[k] = "," /\ s[k + 1] = " "}
    IN IF P = {} THEN 0 ELSE CHOOSE k \in P : \A j \in P : k <= j

AfterSeparator(s) == SubSeq(s, SeparatorAt(s) + 2, Len(s))

SpaceAt(t) ==
    LET P == {k \in 1..Len(t) : t[k] = " "}
    IN IF P = {} THEN 0 ELSE CHOOSE k \in P : \A j \in P : k <= j

\* 'last, first [middle...]': a ', ' and at least one token after it
WellFormedName(s) == s # NaN /\ SeparatorAt(s) > 0 /\ AfterSeparator(s) # <<>>

ExpectedLast(s) == SubSeq(s, 1, SeparatorAt(s) - 1)
ExpectedFirst(s) ==
    LET t == AfterSeparator(s)
    IN IF SpaceAt(t) = 0 THEN t ELSE SubSeq(t, 1, SpaceAt(t) - 1)
ExpectedMiddle(s) ==
    LET t == AfterSeparator(s)
    IN IF SpaceAt(t) = 0 THEN <<>> ELSE SubSeq(t, SpaceAt(t) + 1, Len(t))

\* the latest subpage was merged and its delay taken; html_sub is still that page
Merged == pc \in {"loop", "done"} /\ log # <<>> /\ log[Len(log)].ev = "sleep"

\* the rows of df carrying the id of the page in html_sub
MatchedRows == {r \in 1..Len(df) : MidPrefix \o df[r].inmate_id = html_sub.mid_cell}

PageCharges == html_sub.charges

ValidGrades == {<<"M">>, <<"F">>, <<>>, <<"L">>}

ExpectedSeverity(g) ==
    IF g = <<"M">> THEN misdemeanor ELSE IF g = <<"F">> THEN felony ELSE <<>>

ExpectedBond(c) ==
    LET a == Filled(c.bond_amount)
        amount == IF a \in {<<"$", "0", ".", "0", "0">>, <<"$">>} THEN <<>> ELSE a
    IN SelectSeq(amount, LAMBDA ch : ch # ",") \o <<" ">> \o Escaped(c.bond_remarks)
       \o <<" ">> \o BondLastUpdated \o <<" ">> \o Escaped(c.bond_updated)

DetailFields == {"inmate_address", "agency", "severity", "charges", "bond_amount",
                 "current_status"}

FetchFailed(k) == \E e \in Range(log) : e.ev = "fetch" /\ e.i = k /\ ~e.ok

Fetched(k) == \E e \in Range(log) : e.ev = "fetch" /\ e.i = k

\* the html returned by the latest get_page call
LastHtml == IF log = <<>> THEN html_main ELSE html_sub

Succeeded(met) == ~met.raised /\ met.status_code = 200

----------------------------------------------------------------------------
(* Properties *)

\* C1, as claimed: once scrape_sub is fetching subpages, no subpage ends the run
\* (a page that fails validation, or whose id matches no row, is skipped with a
\* warning), every row whose notes is the sentinel has its detail-only fields empty
\* and the root url, and a finished run has written the CSV
C1_SubpageFailureNonFatal ==
    i >= 1 =>
        /\ pc # "aborted"
        /\ raised = None
        /\ \A r \in 1..Len(df) :
             df[r].notes = Sentinel =>
                df[r].url = url /\ \A f \in DetailFields : df[r][f] = <<>>
        /\ pc = "done" => dumps = 1

\* C2, as claimed: when the fetch of some link's subpage has failed, the run is not
\* ended before dump(): it finishes with every link fetched and dump() called once
C2_FetchFailureRunCompletes ==
    (\E k \in 1..i : FetchFailed(k)) =>
        /\ pc # "aborted"
        /\ pc = "done" => dumps = 1 /\ \A k \in 1..Len(hrefs) : Fetched(k)

\* C3, as claimed: between any two subpage fetches there is a delay
C3_DelayBetweenFetches ==
    \A a, b \in 1..Len(log) :
        (a < b /\ log[a].ev = "fetch" /\ log[b].ev = "fetch") =>
            \E c \in a..b : log[c].ev = "sleep"

\* C4: a get_page call makes at most retries+1 GETs, all to one URL with the same
\* headers; every GET before the last failed; if the last GET succeeded the call
\* returned its text and no error, otherwise it made retries+1 GETs and returned no
\* html and the error of the last GET
C4_GetPage ==
    sent # <<>> =>
        LET n == Len(sent)
        IN /\ n <= retries + 1
           /\ \A k \in 1..n : sent[k].url = sent[1].url /\ sent[k].headers = sent[1].headers
           /\ \A k \in 1..(n - 1) : ~Succeeded(sent[k].met)
           /\ IF Succeeded(sent[n].met)
              THEN errormsg = None /\ LastHtml = sent[n].met.text
              ELSE /\ n = retries + 1
                   /\ LastHtml = None
                   /\ errormsg # None
                   /\ errormsg.attempt = n
                   /\ errormsg.type = (IF sent[n].met.raised THEN "Exception" ELSE "HTTPError")

\* C4's case: every GET failed, the first by an exception and the last by its status
C4_Witness ==
    /\ retries >= 1
    /\ Len(sent) = retries + 1
    /\ sent[1].met.raised
    /\ ~sent[Len(sent)].met.raised
    /\ errormsg # None

\* C5, as claimed: processing_numbers is 'Case # ' + C + ';Police case # ' + P with a
\* missing number rendered as the empty string
C5_PrefixesAlwaysPresent ==
    \A r \in 1..Len(df) :
        df[r].processing_numbers =
            CasePrefix \o Escaped(Roster[r].CASE_NUMBER)
            \o PolicePrefix \o Escaped(Roster[r].POLICE_CASE)

\* C5, amended: a present case number gives 'Case # ' + C and a missing one gives
\* nothing; a present police case number gives ';Police case # ' + P and a missing one
\* gives ';' alone; so there is exactly one ';' in all four combinations
C5_ProcessingNumbers ==
    \A r \in 1..Len(df) :
        LET c == Roster[r].CASE_NUMBER
            p == Roster[r].POLICE_CASE
        IN /\ df[r].processing_numbers =
                (IF c = NaN THEN <<>> ELSE CasePrefix \o Escaped(c))
                \o (IF p = NaN THEN <<";">> ELSE PolicePrefix \o Escaped(p))
           /\ Count(df[r].processing_numbers, ";") = 1

\* C5's case: case number '7;4', police case number missing, gives 'Case # 7:4;'
C5_Witness ==
    \E r \in 1..Len(df) :
        /\ Roster[r].CASE_NUMBER = <<"7", ";", "4">>
        /\ Roster[r].POLICE_CASE = NaN
        /\ df[r].processing_numbers = CasePrefix \o <<"7", ":", "4", ";">>

\* C6, as claimed: a roster with a NAME that is not 'last, first [middle...]' makes
\* scrape_main fail with the format error, and no dataset is produced
C6_BadNameRejected ==
    (MainFetched /\ \E r \in 1..Len(Roster) : ~WellFormedName(Roster[r].NAME)) =>
        df = <<>> /\ raised = [type |-> "AssertionError: Invalid name format"]

\* C7, as claimed: a roster whose every NAME is 'Last, First' or 'Last, First Middle...'
\* is accepted, with last, first and middle name split as stated
C7_GoodNamesAccepted ==
    (MainFetched /\ \A r \in 1..Len(Roster) : WellFormedName(Roster[r].NAME)) =>
        /\ Len(df) = Len(Roster)
        /\ \A r \in 1..Len(df) :
             /\ df[r].inmate_lastname = ExpectedLast(Roster[r].NAME)
             /\ df[r].inmate_firstname = ExpectedFirst(Roster[r].NAME)
             /\ df[r].inmate_middlename = ExpectedMiddle(Roster[r].NAME)

\* C8, as claimed: a merged page has every grade in {M, F, empty, L} and its severity
\* is the join of misdemeanor for M, felony for F, empty for empty or L; a page
\* rejected for its grades has had no severity written
C8_GradeValidated ==
    /\ Merged =>
         /\ \A c \in 1..Len(PageCharges) : Filled(PageCharges[c].grade) \in ValidGrades
         /\ \A r \in MatchedRows :
              df[r].severity =
                Join([c \in 1..Len(PageCharges) |->
                        ExpectedSeverity(Filled(PageCharges[c].grade))])
    /\ raised = [type |-> "AssertionError: Invalid misdemeanor/felony format."] =>
         \A r \in 1..Len(df) : df[r].severity = <<>>

\* C9, as claimed: each of the five per-charge fields of a merged row holds exactly
\* n-1 ';' for a page of n charges
C9_FiveAlignedFields ==
    Merged =>
        \A r \in MatchedRows :
            \A f \in {"agency", "severity", "charges", "bond_amount", "current_status"} :
                Count(df[r][f], ";") = Len(PageCharges) - 1

\* C9, amended: for a merged page of n charges, severity, charges and current_status
\* are each the ';'-join of n per-charge values, ';' inside a cell replaced by ':'
\* (so n-1 ';'), component c belonging to charge c; bond_amount is the ';'-join of
\* n per-charge values in which the remarks and last-updated cells have ';' replaced
\* but the amount cell has not; agency is the one agency alone when all n charges
\* name the same agency, and otherwise the ';'-join of the n agency cells as they are
C9_PerChargeFields ==
    Merged =>
        LET n == Len(PageCharges)
        IN \A r \in MatchedRows :
            /\ \E sev \in [1..n -> {misdemeanor, felony, <<>>}] :
                 /\ df[r].severity = Join(sev)
                 /\ \A c \in 1..n :
                      Filled(PageCharges[c].grade) \in ValidGrades =>
                         sev[c] = ExpectedSeverity(Filled(PageCharges[c].grade))
            /\ df[r].charges = Join([c \in 1..n |-> Escaped(PageCharges[c].description)])
            /\ df[r].current_status = Join([c \in 1..n |-> Escaped(PageCharges[c].disposition)])
            /\ \A f \in {"severity", "charges", "current_status"} : Count(df[r][f], ";") = n - 1
            /\ df[r].bond_amount = Join([c \in 1..n |-> ExpectedBond(PageCharges[c])])
            /\ df[r].agency =
                 IF \A c \in 1..n : PageCharges[c].agency = PageCharges[1].agency
                 THEN PageCharges[1].agency
                 ELSE Join([c \in 1..n |-> PageCharges[c].agency])

\* C9's case: a merged page of two or more charges that name one agency, with a ';'
\* inside a description
C9_Witness ==
    /\ Merged
    /\ MatchedRows # {}
    /\ Len(PageCharges) >= 2
    /\ \A c \in 1..Len(PageCharges) : PageCharges[c].agency = PageCharges[1].agency
    /\ \E c \in 1..Len(PageCharges) : Count(Filled(PageCharges[c].description), ";") > 0

\* C10: between subpages and at the end of the run, a row has empty notes and a
\* subpage url exactly if a merged page carried its inmate_id; every other row has
\* the sentinel notes, the root url and empty detail fields; the ids are unique
C10_MergedRowsById ==
    pc \in {"loop", "parse", "done"} =>
        /\ \A r, q \in 1..Len(df) : df[r].inmate_id = df[q].inmate_id => r = q
        /\ \A r \in 1..Len(df) :
             LET merged == \E e \in Range(log) :
                              e.ev = "merge" /\ e.mid_cell = MidPrefix \o df[r].inmate_id
                 cleared == /\ df[r].notes = ""
                            /\ \E k \in 1..Len(hrefs) : df[r].url = subpage_url(hrefs[k])
             IN /\ merged <=> cleared
                /\ ~merged =>
                     /\ df[r].notes = Sentinel
                     /\ df[r].url = url
                     /\ \A f \in DetailFields : df[r][f] = <<>>

\* C10's case: the run is over, the first link's page carried the second row's id and
\* was merged into it, and the first row was never merged
C10_Witness ==
    /\ pc = "done"
    /\ Len(df) = 2
    /\ df[1].notes = Sentinel
    /\ df[2].notes = ""
    /\ df[2].url = subpage_url(hrefs[1])
    /\ \E e \in Range(log) : e.ev = "merge" /\ e.i = 1

====
